---- MODULE Spec2Model ----
(***************************************************************************)
(* buildmain.c: the generator that chains the peripherals of a DPCore      *)
(* build.  It copies the first 8 lines of the description file into the    *)
(* enumerator ROM image, then reads one peripheral name per token, looks   *)
(* it up in the table of enumerators, invokes its callback with the slot   *)
(* and the first free pin, adds its include line and its library name to   *)
(* the ROM image, and at the end of the file writes the ROM image as 16    *)
(* INIT records.                                                           *)
(*                                                                         *)
(* C strings are sequences of bytes 1..255 (the NUL is implicit); the      *)
(* description file is its sequence of bytes.                              *)
(***************************************************************************)
EXTENDS Integers, Sequences, FiniteSets, TLC

\* ------------------------------------------------------------------------
\* Program constants
\* ------------------------------------------------------------------------

\* Maximum name length for a peripheral
PERILEN == 20

\* Maximum ROM string length
ROMSTRLN == 256

\* Size of the enumerator ROM image
ENUMROMSZ == 2048

\* Number of ROM strings read from the head of the description file
NHDR == 8

\* Number of INIT records of the ROM listing, and bytes per record
NREC == 16

RECLEN == 32

\* (char) 0, '\n', '#', and stdio's EOF
NUL == 0

NL == 10

HASH == 35

EOF == -1

\* ------------------------------------------------------------------------
\* Bounds of the model
\* ------------------------------------------------------------------------

\* Number of lines that follow the header lines in a description file
MaxTokens == 3

\* ------------------------------------------------------------------------
\* Strings
\* ------------------------------------------------------------------------

Digits == "0123456789"

Letters == "abcdefghijklmnopqrstuvwxyz"

\* The execution character set's code of a character of a string literal
Ord(c) ==
  IF \E k \in 1..Len(Digits) : SubSeq(Digits, k, k) = c
    THEN 47 + (CHOOSE k \in 1..Len(Digits) : SubSeq(Digits, k, k) = c)
    ELSE IF \E k \in 1..Len(Letters) : SubSeq(Letters, k, k) = c
      THEN 96 + (CHOOSE k \in 1..Len(Letters) : SubSeq(Letters, k, k) = c)
      ELSE IF c = "#" THEN HASH ELSE IF c = " " THEN 32 ELSE 63

\* The bytes of a string literal
Bytes(s) == [k \in 1..Len(s) |-> Ord(SubSeq(s, k, k))]

Min(S) == CHOOSE x \in S : \A y \in S : x <= y

Max(S) == CHOOSE x \in S : \A y \in S : x >= y

\* s[k] of a C string: the NUL follows the last byte
CharAt(s, k) == IF k <= Len(s) THEN s[k] ELSE NUL

\* isspace() in the C locale
IsSpace(b) == b \in {32, 9, 10, 11, 12, 13}

\* ------------------------------------------------------------------------
\* The table of enumerators
\* ------------------------------------------------------------------------

\* the table as written, its strings as literals
Table ==
  <<
    [periname |-> "enumerator", incname |-> "enumerator", libname |-> "enumerator", invoke |-> "perilist"],
    [periname |-> "bb4io", incname |-> "bb4io", libname |-> "bb4io", invoke |-> "bb4io"],
    [periname |-> "servo4", incname |-> "servo4", libname |-> "servo4", invoke |-> "servo4"],
    [periname |-> "stepu", incname |-> "stepu", libname |-> "stepu", invoke |-> "stepu"],
    [periname |-> "stepb", incname |-> "stepb", libname |-> "stepb", invoke |-> "stepb"],
    [periname |-> "dc2", incname |-> "dc2", libname |-> "dc2", invoke |-> "dc2"],
    [periname |-> "aamp", incname |-> "out4", libname |-> "aamp", invoke |-> "out4"],
    [periname |-> "pgen16", incname |-> "pgen16", libname |-> "pgen16", invoke |-> "pgen16"],
    [periname |-> "pwmout4", incname |-> "pgen16", libname |-> "pwmout4", invoke |-> "pgen16"],
    [periname |-> "quad2", incname |-> "quad2", libname |-> "quad2", invoke |-> "quad2"],
    [periname |-> "qtr4", incname |-> "qtr4", libname |-> "qtr4", invoke |-> "qtr4"],
    [periname |-> "qtr8", incname |-> "qtr8", libname |-> "qtr8", invoke |-> "qtr8"],
    [periname |-> "roten", incname |-> "roten", libname |-> "roten", invoke |-> "roten"],
    [periname |-> "count4", incname |-> "count4", libname |-> "count4", invoke |-> "count4"],
    [periname |-> "touch4", incname |-> "count4", libname |-> "touch4", invoke |-> "count4"],
    [periname |-> "ping4", incname |-> "ping4", libname |-> "ping4", invoke |-> "ping4"],
    [periname |-> "irio", incname |-> "irio", libname |-> "irio", invoke |-> "irio"],
    [periname |-> "espi", incname |-> "espi", libname |-> "espi", invoke |-> "espi"],
    [periname |-> "dac8", incname |-> "espi", libname |-> "dac8", invoke |-> "espi"],
    [periname |-> "qpot", incname |-> "espi", libname |-> "qpot", invoke |-> "espi"],
    [periname |-> "rtc", incname |-> "espi", libname |-> "rtc", invoke |-> "espi"],
    [periname |-> "avr", incname |-> "espi", libname |-> "avr", invoke |-> "espi"],
    [periname |-> "adc812", incname |-> "adc12", libname |-> "adc812", invoke |-> "adc12"],
    [periname |-> "slide4", incname |-> "adc12", libname |-> "slide4", invoke |-> "adc12"],
    [periname |-> "out4", incname |-> "out4", libname |-> "out4", invoke |-> "out4"],
    [periname |-> "out4l", incname |-> "out4l", libname |-> "out4l", invoke |-> "out4l"],
    [periname |-> "ws2812", incname |-> "ws2812", libname |-> "ws2812", invoke |-> "ws2812"],
    [periname |-> "rly4", incname |-> "out4l", libname |-> "rly4", invoke |-> "out4l"],
    [periname |-> "drv4", incname |-> "out4", libname |-> "drv3", invoke |-> "out4"],
    [periname |-> "hub4", incname |-> "out4", libname |-> "hub4", invoke |-> "out4"],
    [periname |-> "gpio4", incname |-> "gpio4", libname |-> "gpio4", invoke |-> "gpio4"],
    [periname |-> "out32", incname |-> "out32", libname |-> "out32", invoke |-> "out32"],
    [periname |-> "lcd6", incname |-> "lcd6", libname |-> "lcd6", invoke |-> "lcd6"],
    [periname |-> "in4", incname |-> "in4", libname |-> "in4", invoke |-> "in4"],
    [periname |-> "sw4", incname |-> "in4", libname |-> "sw4", invoke |-> "in4"],
    [periname |-> "io8", incname |-> "io8", libname |-> "io8", invoke |-> "io8"],
    [periname |-> "tif", incname |-> "tif", libname |-> "tif", invoke |-> "tif"],
    [periname |-> "us8", incname |-> "us8", libname |-> "us8", invoke |-> "us8"],
    [periname |-> "in32", incname |-> "in32", libname |-> "in32", invoke |-> "in32"],
    [periname |-> "ei2c", incname |-> "ei2c", libname |-> "ei2c", invoke |-> "ei2c"],
    [periname |-> "rcrx", incname |-> "rcrx", libname |-> "rcrx", invoke |-> "rcrx"],
    [periname |-> "rfob", incname |-> "rfob", libname |-> "rfob", invoke |-> "rfob"],
    [periname |-> "null", incname |-> "null", libname |-> "null", invoke |-> "null"]
  >>

\* struct ENUMERATORS enumerators[]: periname is the DP internal name of the
\* peripheral, incname the name of the include file, libname the DP daemon
\* loadable module name, invoke the function to build main.v
enumerators ==
  [n \in 1..Len(Table) |->
     [periname |-> Bytes(Table[n].periname), incname |-> Bytes(Table[n].incname),
      libname |-> Bytes(Table[n].libname), invoke |-> Table[n].invoke]]

NPERI == Len(enumerators)

\* ------------------------------------------------------------------------
\* The peripheral invocation functions.  They take the peripheral address,
\* the current pin number and the name read from the description file, and
\* return the pin number of the next available pin.  What each writes to
\* stdout is kept as the module it instantiates (label), the slot whose bus
\* lines it binds (addr) and the connector pins it assigns (pins), in the
\* order of its `PIN_ lines.
\* ------------------------------------------------------------------------

\* bus lines common to all peripherals
printbus(slot, peri) == [label |-> peri, addr |-> slot]

perilist(addr, startpin, peri) ==
  [label |-> peri, addr |-> addr, pins |-> <<>>,
   ret |-> startpin + 0]

bb4io(addr, startpin, peri) ==
  [label |-> printbus(addr, peri).label, addr |-> printbus(addr, peri).addr,
   pins |-> <<>>,
   ret |-> startpin + 0]

stepu(addr, startpin, peri) ==
  [label |-> printbus(addr, peri).label, addr |-> printbus(addr, peri).addr,
   pins |-> <<startpin, startpin + 1, startpin + 2, startpin + 3>>,
   ret |-> startpin + 4]

stepb(addr, startpin, peri) ==
  [label |-> printbus(addr, peri).label, addr |-> printbus(addr, peri).addr,
   pins |-> <<startpin, startpin + 1, startpin + 2, startpin + 3>>,
   ret |-> startpin + 4]

dc2(addr, startpin, peri) ==
  [label |-> printbus(addr, Bytes("dc2")).label, addr |-> printbus(addr, Bytes("dc2")).addr,
   pins |-> <<startpin, startpin + 1, startpin + 2, startpin + 3>>,
   ret |-> startpin + 4]

pgen16(addr, startpin, peri) ==
  [label |-> printbus(addr, Bytes("pgen16")).label, addr |-> printbus(addr, Bytes("pgen16")).addr,
   pins |-> <<startpin, startpin + 1, startpin + 2, startpin + 3>>,
   ret |-> startpin + 4]

quad2(addr, startpin, peri) ==
  [label |-> printbus(addr, peri).label, addr |-> printbus(addr, peri).addr,
   pins |-> <<startpin, startpin + 1, startpin + 2, startpin + 3>>,
   ret |-> startpin + 4]

qtr4(addr, startpin, peri) ==
  [label |-> printbus(addr, peri).label, addr |-> printbus(addr, peri).addr,
   pins |-> <<startpin, startpin + 1, startpin + 2, startpin + 3>>,
   ret |-> startpin + 4]

\* qtr8 returning the pin after its fourth
qtr8_HalfReturn(addr, startpin, peri) ==
  [label |-> peri, addr |-> addr,
   pins |-> <<startpin, startpin + 1, startpin + 2, startpin + 3,
              startpin + 4, startpin + 5, startpin + 6, startpin + 7>>,
   ret |-> startpin + 4]

qtr8(addr, startpin, peri) ==
  [label |-> printbus(addr, peri).label, addr |-> printbus(addr, peri).addr,
   pins |-> <<startpin, startpin + 1, startpin + 2, startpin + 3,
              startpin + 4, startpin + 5, startpin + 6, startpin + 7>>,
   ret |-> startpin + 8]

roten(addr, startpin, peri) ==
  [label |-> printbus(addr, peri).label, addr |-> printbus(addr, peri).addr,
   pins |-> <<startpin, startpin + 1, startpin + 2, startpin + 3>>,
   ret |-> startpin + 4]

count4(addr, startpin, peri) ==
  [label |-> printbus(addr, Bytes("count4")).label, addr |-> printbus(addr, Bytes("count4")).addr,
   pins |-> <<startpin, startpin + 1, startpin + 2, startpin + 3>>,
   ret |-> startpin + 4]

\* servo4 returning one pin less than it assigns
servo4_ShortReturn(addr, startpin, peri) ==
  [label |-> peri, addr |-> addr,
   pins |-> <<startpin, startpin + 1, startpin + 2, startpin + 3>>,
   ret |-> startpin + 3]

servo4(addr, startpin, peri) ==
  [label |-> printbus(addr, peri).label, addr |-> printbus(addr, peri).addr,
   pins |-> <<startpin, startpin + 1, startpin + 2, startpin + 3>>,
   ret |-> startpin + 4]

ping4(addr, startpin, peri) ==
  [label |-> printbus(addr, peri).label, addr |-> printbus(addr, peri).addr,
   pins |-> <<startpin, startpin + 1, startpin + 2, startpin + 3>>,
   ret |-> startpin + 4]

irio(addr, startpin, peri) ==
  [label |-> printbus(addr, peri).label, addr |-> printbus(addr, peri).addr,
   pins |-> <<startpin, startpin + 1, startpin + 2, startpin + 3>>,
   ret |-> startpin + 4]

rcrx(addr, startpin, peri) ==
  [label |-> printbus(addr, peri).label, addr |-> printbus(addr, peri).addr,
   pins |-> <<startpin, startpin + 1, startpin + 2, startpin + 3>>,
   ret |-> startpin + 4]

rfob(addr, startpin, peri) ==
  [label |-> printbus(addr, peri).label, addr |-> printbus(addr, peri).addr,
   pins |-> <<startpin, startpin + 1, startpin + 2, startpin + 3>>,
   ret |-> startpin + 4]

espi(addr, startpin, peri) ==
  [label |-> printbus(addr, Bytes("espi")).label, addr |-> printbus(addr, Bytes("espi")).addr,
   pins |-> <<startpin, startpin + 1, startpin + 2, startpin + 3>>,
   ret |-> startpin + 4]

adc12(addr, startpin, peri) ==
  [label |-> printbus(addr, Bytes("adc12")).label, addr |-> printbus(addr, Bytes("adc12")).addr,
   pins |-> <<startpin, startpin + 1, startpin + 2, startpin + 3>>,
   ret |-> startpin + 4]

ws2812(addr, startpin, peri) ==
  [label |-> printbus(addr, Bytes("ws2812")).label, addr |-> printbus(addr, Bytes("ws2812")).addr,
   pins |-> <<startpin, startpin + 1, startpin + 2, startpin + 3>>,
   ret |-> startpin + 4]

out4(addr, startpin, peri) ==
  [label |-> printbus(addr, Bytes("out4")).label, addr |-> printbus(addr, Bytes("out4")).addr,
   pins |-> <<startpin, startpin + 1, startpin + 2, startpin + 3>>,
   ret |-> startpin + 4]

out4l(addr, startpin, peri) ==
  [label |-> printbus(addr, Bytes("out4l")).label, addr |-> printbus(addr, Bytes("out4l")).addr,
   pins |-> <<startpin, startpin + 1, startpin + 2, startpin + 3>>,
   ret |-> startpin + 4]

gpio4(addr, startpin, peri) ==
  [label |-> printbus(addr, peri).label, addr |-> printbus(addr, peri).addr,
   pins |-> <<startpin, startpin + 1, startpin + 2, startpin + 3>>,
   ret |-> startpin + 4]

in4(addr, startpin, peri) ==
  [label |-> printbus(addr, Bytes("in4")).label, addr |-> printbus(addr, Bytes("in4")).addr,
   pins |-> <<startpin, startpin + 1, startpin + 2, startpin + 3>>,
   ret |-> startpin + 4]

out32(addr, startpin, peri) ==
  [label |-> printbus(addr, peri).label, addr |-> printbus(addr, peri).addr,
   pins |-> <<startpin, startpin + 1, startpin + 2, startpin + 3>>,
   ret |-> startpin + 4]

lcd6(addr, startpin, peri) ==
  [label |-> printbus(addr, peri).label, addr |-> printbus(addr, peri).addr,
   pins |-> <<startpin, startpin + 1, startpin + 2, startpin + 3>>,
   ret |-> startpin + 4]

io8(addr, startpin, peri) ==
  [label |-> printbus(addr, peri).label, addr |-> printbus(addr, peri).addr,
   pins |-> <<startpin, startpin + 1, startpin + 2, startpin + 3>>,
   ret |-> startpin + 4]

tif(addr, startpin, peri) ==
  [label |-> printbus(addr, peri).label, addr |-> printbus(addr, peri).addr,
   pins |-> <<startpin, startpin + 1, startpin + 2, startpin + 3>>,
   ret |-> startpin + 4]

us8(addr, startpin, peri) ==
  [label |-> printbus(addr, peri).label, addr |-> printbus(addr, peri).addr,
   pins |-> <<startpin, startpin + 1, startpin + 2, startpin + 3>>,
   ret |-> startpin + 4]

in32(addr, startpin, peri) ==
  [label |-> printbus(addr, peri).label, addr |-> printbus(addr, peri).addr,
   pins |-> <<startpin, startpin + 1, startpin + 2, startpin + 3>>,
   ret |-> startpin + 4]

ei2c(addr, startpin, peri) ==
  [label |-> printbus(addr, Bytes("ei2c")).label, addr |-> printbus(addr, Bytes("ei2c")).addr,
   pins |-> <<startpin, startpin + 1, startpin + 2, startpin + 3>>,
   ret |-> startpin + 4]

\* A null peripheral
null(addr, startpin, peri) ==
  [label |-> printbus(addr, Bytes("null")).label,
   addr |-> printbus(addr, Bytes("null")).addr,
   pins |-> <<>>,
   ret |-> startpin]

\* (enumerators[i].invoke)(slot, pin, peri)
Invoke(fn, addr, startpin, peri) ==
  CASE fn = "perilist" -> perilist(addr, startpin, peri)
    [] fn = "bb4io" -> bb4io(addr, startpin, peri)
    [] fn = "stepu" -> stepu(addr, startpin, peri)
    [] fn = "stepb" -> stepb(addr, startpin, peri)
    [] fn = "dc2" -> dc2(addr, startpin, peri)
    [] fn = "pgen16" -> pgen16(addr, startpin, peri)
    [] fn = "quad2" -> quad2(addr, startpin, peri)
    [] fn = "qtr4" -> qtr4(addr, startpin, peri)
    [] fn = "qtr8" -> qtr8(addr, startpin, peri)
    [] fn = "roten" -> roten(addr, startpin, peri)
    [] fn = "count4" -> count4(addr, startpin, peri)
    [] fn = "servo4" -> servo4(addr, startpin, peri)
    [] fn = "ping4" -> ping4(addr, startpin, peri)
    [] fn = "irio" -> irio(addr, startpin, peri)
    [] fn = "rcrx" -> rcrx(addr, startpin, peri)
    [] fn = "rfob" -> rfob(addr, startpin, peri)
    [] fn = "espi" -> espi(addr, startpin, peri)
    [] fn = "adc12" -> adc12(addr, startpin, peri)
    [] fn = "ws2812" -> ws2812(addr, startpin, peri)
    [] fn = "out4" -> out4(addr, startpin, peri)
    [] fn = "out4l" -> out4l(addr, startpin, peri)
    [] fn = "gpio4" -> gpio4(addr, startpin, peri)
    [] fn = "in4" -> in4(addr, startpin, peri)
    [] fn = "out32" -> out32(addr, startpin, peri)
    [] fn = "lcd6" -> lcd6(addr, startpin, peri)
    [] fn = "io8" -> io8(addr, startpin, peri)
    [] fn = "tif" -> tif(addr, startpin, peri)
    [] fn = "us8" -> us8(addr, startpin, peri)
    [] fn = "in32" -> in32(addr, startpin, peri)
    [] fn = "ei2c" -> ei2c(addr, startpin, peri)
    [] fn = "null" -> null(addr, startpin, peri)

\* ------------------------------------------------------------------------
\* The C library calls the program makes
\* ------------------------------------------------------------------------

\* strncmp(a, b, n) from byte k on: the difference of the first bytes that
\* differ, 0 when the strings end, or n bytes are compared, before any does
RECURSIVE strncmpFrom(_, _, _, _)
strncmpFrom(a, b, n, k) ==
  IF k > n
    THEN 0
    ELSE IF CharAt(a, k) # CharAt(b, k)
      THEN CharAt(a, k) - CharAt(b, k)
      ELSE IF CharAt(a, k) = NUL THEN 0 ELSE strncmpFrom(a, b, n, k + 1)

\* the comparison stopped after three bytes
strncmp_Three(a, b, n) == strncmpFrom(a, b, 3, 1)

strncmp(a, b, n) == strncmpFrom(a, b, n, 1)

\* fgets(romstr, size, f) at offset pos (1-based) of the bytes f: at most
\* size - 1 bytes, up to and including the first newline; ok is FALSE at the
\* end of the file
fgets(f, pos, size) ==
  IF pos > Len(f)
    THEN [ok |-> FALSE, str |-> <<>>, pos |-> pos]
    ELSE LET lim == IF pos + size - 2 < Len(f) THEN pos + size - 2 ELSE Len(f)
             nls == {k \in pos..lim : f[k] = NL}
             end == IF nls = {} THEN lim ELSE Min(nls)
         IN  [ok |-> TRUE, str |-> SubSeq(f, pos, end), pos |-> end + 1]

\* the offset of the first byte at or after pos that is not white space
\* (Len(f) + 1 when there is none)
RECURSIVE SkipSpace(_, _)
SkipSpace(f, pos) ==
  IF pos <= Len(f) /\ IsSpace(f[pos]) THEN SkipSpace(f, pos + 1) ELSE pos

\* the offset of the first white space byte at or after pos (Len(f) + 1 when
\* there is none)
RECURSIVE SkipWord(_, _)
SkipWord(f, pos) ==
  IF pos <= Len(f) /\ ~IsSpace(f[pos]) THEN SkipWord(f, pos + 1) ELSE pos

\* fscanf(f, "%s", peri) at offset pos: white space is skipped, then the
\* bytes up to the next white space or the end of the file are the string;
\* EOF when the file ends before any byte of a string
fscanf(f, pos) ==
  LET first == SkipSpace(f, pos)
      end == SkipWord(f, first)
  IN  IF first > Len(f)
        THEN [ret |-> EOF, str |-> <<>>, pos |-> first]
        ELSE [ret |-> 1, str |-> SubSeq(f, first, end - 1), pos |-> end]

\* the highest index of peri the call stores to: the string from peri[0] on
\* and the NUL after it
FscanfTop(s) == Len(s)

\* sprintf(&(rom[idx]), "%s%c", s, (char) 0): the bytes it stores, first at
\* rom[idx]: the string, the NUL of %c, and the NUL that ends the output
SprintfBytes(s) == s \o <<NUL, NUL>>

\* the ending NUL counted too
SprintfRet_CountsEnd(s) == Len(s) + 2

\* its return value: the bytes written, not counting the ending NUL
SprintfRet(s) == Len(s) + 1

\* rom[k], k from 0: the image is kept as the sequence of its ENUMROMSZ bytes
RomAt(r, k) == r[k + 1]

\* the image after the stores of the call that fall inside the array
SprintfRom(r, idx, s) ==
  LET bytes == SprintfBytes(s)
      room == ENUMROMSZ - idx
      kept == IF Len(bytes) > room THEN SubSeq(bytes, 1, room) ELSE bytes
  IN  SubSeq(r, 1, idx) \o kept \o SubSeq(r, idx + Len(kept) + 1, ENUMROMSZ)

\* the highest index of rom the call stores to
SprintfTop(idx, s) == idx + Len(SprintfBytes(s)) - 1

\* the digits (0..15) of a number >= 0 in base 16
RECURSIVE HexDigits(_)
HexDigits(n) == IF n < 16 THEN <<n>> ELSE HexDigits(n \div 16) \o <<n % 16>>

\* printf("%02x", v), v an int converted to unsigned int (32 bits): a
\* negative v of 16 bits has its upper half all ones
PrintfHex02(v) ==
  IF v >= 0
    THEN IF v < 16 THEN <<0>> \o HexDigits(v) ELSE HexDigits(v)
    ELSE HexDigits(65535) \o HexDigits(65536 + v)

\* printf("%02x") of every value a char promoted to int can have
Hex02 == [v \in -128..255 |-> PrintfHex02(v)]

\* rom[j] passed to fprintf: a char promoted to int; plain char is signed or
\* unsigned as the build has it, the byte is kept here as 0..255
CharToInt(b, signedChar) == IF signedChar /\ b >= 128 THEN b - 256 ELSE b

\* the inner loop of the ROM formatter: rom[hi] down to rom[lo] in hex
RECURSIVE RecordDigits(_, _, _, _)
RecordDigits(r, hi, lo, signedChar) ==
  IF hi < lo
    THEN <<>>
    ELSE Hex02[CharToInt(RomAt(r, hi), signedChar)]
           \o RecordDigits(r, hi - 1, lo, signedChar)

\* the outer loop: the INIT records of enumerator.lst, labelled %02X of i
FormatRom(r, signedChar) ==
  [n \in 1..NREC |->
     [label |-> PrintfHex02(n - 1),
      digits |-> RecordDigits(r, (RECLEN * n) - 1, RECLEN * (n - 1), signedChar),
      last |-> (n - 1 = NREC - 1)]]

\* the lookup comparing only as many bytes as the name read has
Lookup_Prefix(peri) ==
  LET hits == {n \in 0..(NPERI - 1) :
                 strncmp(peri, enumerators[n + 1].periname, Len(peri)) = 0}
  IN  IF hits = {} THEN NPERI ELSE Min(hits)

\* the loop over the table of enumerators: the first index (from 0) whose
\* periname compares equal, NPERI when none does
Lookup(peri) ==
  LET hits == {n \in 0..(NPERI - 1) :
                 strncmp(peri, enumerators[n + 1].periname, PERILEN - 1) = 0}
  IN  IF hits = {} THEN NPERI ELSE Min(hits)

\* ------------------------------------------------------------------------
\* Description files
\* ------------------------------------------------------------------------

Line(s) == s \o <<NL>>

RECURSIVE Cat(_)
Cat(ss) == IF ss = <<>> THEN <<>> ELSE Head(ss) \o Cat(Tail(ss))

\* a header line "hdrk"
ShortLine(k) == Line(Bytes("hdr") \o <<48 + k>>)

\* a header line that fills romstr: ROMSTRLN - 2 bytes and the newline
FullLine == Line([k \in 1..(ROMSTRLN - 2) |-> 120])

\* a header line with a byte above 127 (Latin-1 e acute)
HighLine == Line(Bytes("caf") \o <<233>>)

\* the header lines the author of a description file has written: their
\* number and their bytes
HeaderParts ==
  << [n |-> NHDR, bytes |-> Cat([k \in 1..NHDR |-> ShortLine(k)])],
     [n |-> 5, bytes |-> Cat([k \in 1..5 |-> ShortLine(k)])],
     [n |-> NHDR, bytes |-> Cat([k \in 1..NHDR |-> FullLine])],
     [n |-> NHDR, bytes |-> HighLine \o Cat([k \in 1..(NHDR - 1) |-> ShortLine(k + 1)])] >>

\* the lines that may follow them
TokenLines ==
  << Bytes("enumerator"), Bytes("servo4"), Bytes("qtr8"), Bytes("rtc"),
     Bytes("#c"), Bytes("out") >>

\* a header line longer than one fgets call takes: ROMSTRLN bytes and the
\* newline
LongLine == Line([k \in 1..ROMSTRLN |-> 120])

\* header parts with a long line, and with a last line that has no newline
WordHeaderParts ==
  << [n |-> NHDR, bytes |-> Cat([k \in 1..NHDR |-> ShortLine(k)])],
     [n |-> 5, bytes |-> Cat([k \in 1..5 |-> ShortLine(k)])],
     [n |-> NHDR, bytes |-> LongLine \o Cat([k \in 1..(NHDR - 1) |-> ShortLine(k + 1)])],
     [n |-> NHDR, bytes |-> Cat([k \in 1..(NHDR - 1) |-> ShortLine(k)])
                              \o Bytes("hdr8")] >>

\* a word of PERILEN bytes, and a comment word of PERILEN bytes
LongWord == [k \in 1..PERILEN |-> 121]

LongComment == <<HASH>> \o [k \in 1..(PERILEN - 1) |-> 45]

\* lines with a comment marker apart from its word and next to it, the
\* name whose library has another name, and the long words
WordLines ==
  << Bytes("# rtc"), Bytes("#rtc"), Bytes("drv4"), LongWord, LongComment >>

\* ------------------------------------------------------------------------
\* State
\* ------------------------------------------------------------------------

VARIABLES
  file,      \* the bytes of the description file
  nhdr,      \* how many of its lines its author wrote as header lines
  fpos,      \* pdescfile's offset into them, from 1
  pc,        \* "hdr": the header loop; "loop": the peripheral loop;
             \* "fmt": the ROM formatter; "exit": the process has ended
  j,         \* the header loop's index
  romstrs,   \* the strings the header loop has appended to the image
  peri,      \* the peripheral name
  peritop,   \* the highest index of peri a read has stored to (-1: none)
  ret,       \* fscanf's result
  i,         \* the index the lookup loop ended with
  slot,      \* the next peripheral's address
  pin,       \* the next free pin
  rom,       \* the ROM image
  romindx,   \* how many bytes of rom are used
  romtop,    \* the highest index of rom an append has stored to (-1: none)
  insts,     \* the peripherals invoked: table index, slot and pin passed
  stdout,    \* the wiring written to stdout
  includes,  \* the lines of includes.tmp
  enumlst,   \* the records of enumerator.lst
  readerr,   \* a read of the description file has failed
  status,    \* the exit status (-1: still running)
  msg        \* the message of a fatal exit ("" when none)

vars ==
  << file, nhdr, fpos, pc, j, romstrs, peri, peritop, ret, i, slot, pin, rom,
     romindx, romtop, insts, stdout, includes, enumlst, readerr, status, msg >>

Files ==
  { [n |-> HeaderParts[h].n,
     bytes |-> HeaderParts[h].bytes \o Cat([k \in 1..Len(ts) |-> Line(TokenLines[ts[k]])])] :
      h \in 1..Len(HeaderParts),
      ts \in UNION { [1..n -> 1..Len(TokenLines)] : n \in 0..MaxTokens } }

\* main() up to the header loop, given one description file of a set: the
\* files are open, the image is zeroed
InitWith(D) ==
  /\ \E d \in D : file = d.bytes /\ nhdr = d.n
  /\ fpos = 1
  /\ pc = "hdr"
  /\ j = 0
  /\ romstrs = <<>>
  /\ peri = <<>>
  /\ peritop = -1
  /\ ret = 0
  /\ i = 0
  /\ slot = 0
  /\ pin = 0
  /\ rom = [k \in 1..ENUMROMSZ |-> NUL]
  /\ romindx = 0
  /\ romtop = -1
  /\ insts = <<>>
  /\ stdout = <<>>
  /\ includes = <<>>
  /\ enumlst = <<>>
  /\ readerr = FALSE
  /\ status = -1
  /\ msg = ""

Init == InitWith(Files)

\* exit(code) after a message
Exit(code, text) ==
  /\ pc' = "exit"
  /\ status' = code
  /\ msg' = text

\* ------------------------------------------------------------------------
\* The header loop: the first 8 lines of the descfile are copied to the ROM
\* image
\* ------------------------------------------------------------------------

\* romstr[strlen(romstr)-1] = (char) 0
StripLast(s) == SubSeq(s, 1, Len(s) - 1)

\* one pass of the loop with fgets giving a line
HeaderLine ==
  /\ pc = "hdr"
  /\ j < NHDR
  /\ \E got \in {fgets(file, fpos, ROMSTRLN)} :
       /\ got.ok
       /\ \E romstr \in {StripLast(got.str)} :
            /\ fpos' = got.pos
            /\ romstrs' = Append(romstrs, romstr)
            /\ rom' = SprintfRom(rom, romindx, romstr)
            /\ romtop' = IF SprintfTop(romindx, romstr) > romtop
                           THEN SprintfTop(romindx, romstr) ELSE romtop
            /\ romindx' = romindx + SprintfRet(romstr)
  /\ j' = j + 1
  /\ pc' = IF j + 1 < NHDR THEN "hdr" ELSE "loop"
  /\ UNCHANGED << file, nhdr, peritop, peri, ret, i, slot, pin, insts, stdout,
                  includes, enumlst, readerr, status, msg >>

\* the missing line not ending the run: the peripheral loop is entered
HeaderMissing_GoesOn ==
  /\ pc = "hdr"
  /\ j < NHDR
  /\ ~fgets(file, fpos, ROMSTRLN).ok
  /\ pc' = "loop"
  /\ UNCHANGED << file, nhdr, peritop, fpos, j, romstrs, peri, ret, i, slot, pin, rom,
                  romindx, romtop, insts, stdout, includes, enumlst, readerr,
                  status, msg >>

\* one pass of the loop with fgets giving 0: the file has ended (a failed
\* read gives 0 too, and takes the same path)
HeaderMissing ==
  /\ pc = "hdr"
  /\ j < NHDR
  /\ ~fgets(file, fpos, ROMSTRLN).ok
  /\ Exit(1, "Not enough ROM strings")
  /\ UNCHANGED << file, nhdr, peritop, fpos, j, romstrs, peri, ret, i, slot, pin, rom,
                  romindx, romtop, insts, stdout, includes, enumlst, readerr >>

\* ------------------------------------------------------------------------
\* The loop through the list of peripherals
\* ------------------------------------------------------------------------

\* fscanf's result when the read may fail: a failed read gives EOF, as the
\* end of the file does
Scan(failed) ==
  IF failed THEN [ret |-> EOF, str |-> <<>>, pos |-> fpos] ELSE fscanf(file, fpos)

\* ret is EOF (no more peripherals to process: endmodule is written and the
\* loop is left), or is some other negative value (fatal)
ScanEnd ==
  /\ pc = "loop"
  /\ \E failed \in BOOLEAN :
       /\ Scan(failed).ret < 0
       /\ ret' = Scan(failed).ret
       /\ fpos' = Scan(failed).pos
       /\ readerr' = failed
       /\ IF Scan(failed).ret = EOF
            THEN /\ stdout' = Append(stdout, [kind |-> "endmodule", label |-> <<>>,
                                              addr |-> -1, pins |-> <<>>])
                 /\ pc' = "fmt"
                 /\ UNCHANGED << status, msg >>
            ELSE /\ Exit(1, "Read error")
                 /\ UNCHANGED stdout
  /\ UNCHANGED << file, nhdr, peritop, j, romstrs, peri, i, slot, pin, rom, romindx,
                  romtop, insts, includes, enumlst >>

\* Skip lines beginning with a #.  A store of fscanf past the end of peri is
\* undefined: the process goes on with its variables as they are, or is
\* ended by a fault inside fscanf.
SkipComment ==
  /\ pc = "loop"
  /\ \E s \in {Scan(FALSE)} :
       /\ s.ret >= 0
       /\ s.str[1] = HASH
       /\ peri' = s.str
       /\ peritop' = Max({peritop, FscanfTop(s.str)})
       /\ fpos' = s.pos
       /\ \E fault \in BOOLEAN :
            /\ fault => FscanfTop(s.str) >= PERILEN
            /\ IF fault
                 THEN /\ Exit(139, "")
                      /\ UNCHANGED ret
                 ELSE /\ ret' = s.ret
                      /\ UNCHANGED << pc, status, msg >>
  /\ UNCHANGED << file, nhdr, j, romstrs, i, slot, pin, rom, romindx,
                  romtop, insts, stdout, includes, enumlst, readerr >>

\* the lookup loop ends with i == NPERI
UnknownPeripheral ==
  /\ pc = "loop"
  /\ \E s \in {Scan(FALSE)} :
       /\ s.ret >= 0
       /\ s.str[1] # HASH
       /\ Lookup(s.str) = NPERI
       /\ peri' = s.str
       /\ peritop' = Max({peritop, FscanfTop(s.str)})
       /\ fpos' = s.pos
       /\ \E fault \in BOOLEAN :
            /\ fault => FscanfTop(s.str) >= PERILEN
            /\ IF fault
                 THEN /\ Exit(139, "")
                      /\ UNCHANGED << ret, i >>
                 ELSE /\ ret' = s.ret
                      /\ i' = NPERI
                      /\ Exit(1, "Unknown peripheral")
  /\ UNCHANGED << file, nhdr, j, romstrs, slot, pin, rom, romindx, romtop,
                  insts, stdout, includes, enumlst, readerr >>

\* the check after the library name is put in the ROM image
Overflow(indx) == indx > ENUMROMSZ

\* the name of the peripheral in the place of the include file's
IncludeLine_Periname(n) == enumerators[n + 1].periname

\* add it to the includes file: the name in the `include line written for
\* the entry at index n
IncludeLine(n) == enumerators[n + 1].incname

\* the slot left as it is
NextSlot_Stuck(s) == s

\* Go to next slot/peripheral
NextSlot(s) == s + 1

\* Found the peripheral: it is invoked with its slot and starting pin, added
\* to the includes file, and its library name is put in the ROM image.  A
\* store of sprintf past the end of rom is undefined: the process goes on
\* with its variables as they are, or is ended by a fault inside sprintf.
Peripheral ==
  /\ pc = "loop"
  /\ \E s \in {Scan(FALSE)} :
       /\ s.ret >= 0
       /\ s.str[1] # HASH
       /\ \E n \in {Lookup(s.str)} :
            /\ n < NPERI
            /\ \E w \in {Invoke(enumerators[n + 1].invoke, slot, pin, s.str)} :
                 /\ ret' = s.ret
                 /\ peri' = s.str
                 /\ peritop' = Max({peritop, FscanfTop(s.str)})
                 /\ fpos' = s.pos
                 /\ i' = n
                 /\ pin' = w.ret
                 /\ insts' = Append(insts, [i |-> n, addr |-> slot, pin |-> pin])
                 /\ stdout' = Append(stdout, [kind |-> "peri", label |-> w.label,
                                              addr |-> w.addr, pins |-> w.pins])
                 /\ includes' = Append(includes, IncludeLine(n))
                 /\ rom' = SprintfRom(rom, romindx, enumerators[n + 1].libname)
                 /\ romtop' = IF SprintfTop(romindx, enumerators[n + 1].libname) > romtop
                                THEN SprintfTop(romindx, enumerators[n + 1].libname)
                                ELSE romtop
                 /\ \E fault \in BOOLEAN :
                      /\ fault => SprintfTop(romindx, enumerators[n + 1].libname) >= ENUMROMSZ
                      /\ IF fault
                           THEN /\ Exit(139, "")
                                /\ UNCHANGED << romindx, slot >>
                           ELSE /\ romindx' = romindx + SprintfRet(enumerators[n + 1].libname)
                                /\ IF Overflow(romindx + SprintfRet(enumerators[n + 1].libname))
                                     THEN /\ Exit(1, "Oops, Enumerator ROM overflow")
                                          /\ UNCHANGED slot
                                     ELSE /\ slot' = NextSlot(slot)
                                          /\ UNCHANGED << pc, status, msg >>
  /\ UNCHANGED << file, nhdr, j, romstrs, enumlst, readerr >>

\* ------------------------------------------------------------------------
\* Copy enumerator ROM image to enumerator.lst file format, and exit(0)
\* ------------------------------------------------------------------------

WriteRom ==
  /\ pc = "fmt"
  /\ \E signedChar \in BOOLEAN : enumlst' = FormatRom(rom, signedChar)
  /\ Exit(0, "")
  /\ UNCHANGED << file, nhdr, peritop, fpos, j, romstrs, peri, ret, i, slot, pin, rom,
                  romindx, romtop, insts, stdout, includes, readerr >>

Next ==
  \/ HeaderLine
  \/ HeaderMissing
  \/ ScanEnd
  \/ SkipComment
  \/ UnknownPeripheral
  \/ Peripheral
  \/ WriteRom

Spec == Init /\ [][Next]_vars

\* the same program on the description files made of WordHeaderParts and
\* WordLines
WordFiles ==
  { [n |-> WordHeaderParts[h].n,
     bytes |-> WordHeaderParts[h].bytes \o Cat([k \in 1..Len(ts) |-> Line(WordLines[ts[k]])])] :
      h \in 1..Len(WordHeaderParts),
      ts \in UNION { [1..n -> 1..Len(WordLines)] : n \in 0..MaxTokens } }

InitWords == InitWith(WordFiles)

SpecWords == InitWords /\ [][Next]_vars

\* ------------------------------------------------------------------------
\* The lookup alone, on names the table holds, on their proper prefixes, on
\* names with a byte more, and on names of PERILEN - 1 bytes and more
\* ------------------------------------------------------------------------

ExtraBytes == {Ord("x"), Ord("4"), Ord("l")}

LookupInputs ==
  {enumerators[n].periname : n \in 1..NPERI}
    \cup UNION {{SubSeq(enumerators[n].periname, 1, k) :
                   k \in 1..Len(enumerators[n].periname)} : n \in 1..NPERI}
    \cup {enumerators[n].periname \o <<c>> : n \in 1..NPERI, c \in ExtraBytes}
    \cup {enumerators[n].periname
            \o [k \in 1..(PERILEN - 1 - Len(enumerators[n].periname) + d) |-> Ord("x")] :
            n \in 1..NPERI, d \in 0..1}

InitLookup ==
  /\ peri \in LookupInputs
  /\ pc = "lookup"
  /\ peritop = -1
  /\ file = <<>>
  /\ nhdr = 0
  /\ fpos = 1
  /\ j = 0
  /\ romstrs = <<>>
  /\ ret = 1
  /\ i = 0
  /\ slot = 0
  /\ pin = 0
  /\ rom = [k \in 1..ENUMROMSZ |-> NUL]
  /\ romindx = 0
  /\ romtop = -1
  /\ insts = <<>>
  /\ stdout = <<>>
  /\ includes = <<>>
  /\ enumlst = <<>>
  /\ readerr = FALSE
  /\ status = -1
  /\ msg = ""

LookupStep ==
  /\ pc = "lookup"
  /\ i' = Lookup(peri)
  /\ pc' = "looked"
  /\ UNCHANGED << file, nhdr, peritop, fpos, j, romstrs, peri, ret, slot, pin, rom,
                  romindx, romtop, insts, stdout, includes, enumlst, readerr,
                  status, msg >>

SpecLookup == InitLookup /\ [][LookupStep]_vars

\* ------------------------------------------------------------------------
\* The invocation functions alone: each entry of the table called with an
\* address and a starting pin
\* ------------------------------------------------------------------------

MaxAddr == 2

MaxPin == 9

InitInvoke ==
  /\ i \in 0..(NPERI - 1)
  /\ slot \in 0..MaxAddr
  /\ pin \in 0..MaxPin
  /\ peri = enumerators[i + 1].periname
  /\ peritop = Len(peri)
  /\ pc = "invoke"
  /\ file = <<>>
  /\ nhdr = 0
  /\ fpos = 1
  /\ j = 0
  /\ romstrs = <<>>
  /\ ret = 1
  /\ rom = [k \in 1..ENUMROMSZ |-> NUL]
  /\ romindx = 0
  /\ romtop = -1
  /\ insts = <<>>
  /\ stdout = <<>>
  /\ includes = <<>>
  /\ enumlst = <<>>
  /\ readerr = FALSE
  /\ status = -1
  /\ msg = ""

\* pin = (enumerators[i].invoke)(slot, pin, peri)
InvokeStep ==
  /\ pc = "invoke"
  /\ \E w \in {Invoke(enumerators[i + 1].invoke, slot, pin, peri)} :
       /\ pin' = w.ret
       /\ insts' = Append(insts, [i |-> i, addr |-> slot, pin |-> pin])
       /\ stdout' = Append(stdout, [kind |-> "peri", label |-> w.label,
                                    addr |-> w.addr, pins |-> w.pins])
  /\ pc' = "invoked"
  /\ UNCHANGED << file, nhdr, peritop, fpos, j, romstrs, peri, ret, i, slot, rom,
                  romindx, romtop, includes, enumlst, readerr, status, msg >>

SpecInvoke == InitInvoke /\ [][InvokeStep]_vars


\* ------------------------------------------------------------------------
\* What the description file holds, read off its bytes
\* ------------------------------------------------------------------------

\* the offsets of the newlines of f
Newlines(f) == {k \in 1..Len(f) : f[k] = NL}

\* the number of lines of f, a last line without newline counted
NumLines(f) ==
  Cardinality(Newlines(f)) + (IF f # <<>> /\ f[Len(f)] # NL THEN 1 ELSE 0)

\* the offset after the n-th newline of f (f has at least n)
AfterLine(f, n) ==
  1 + (CHOOSE k \in Newlines(f) : Cardinality({m \in Newlines(f) : m <= k}) = n)

\* the words of f from offset pos to offset last, in order
RECURSIVE Words(_, _, _)
Words(f, pos, last) ==
  LET blk == {k \in pos..last : ~IsSpace(f[k])}
  IN  IF blk = {}
        THEN <<>>
        ELSE LET a == Min(blk)
                 sp == {k \in a..last : IsSpace(f[k])}
                 e == IF sp = {} THEN last ELSE Min(sp) - 1
             IN  <<SubSeq(f, a, e)>> \o Words(f, e + 1, last)

IsComment(w) == w[1] = HASH

NonComment(ws) == SelectSeq(ws, LAMBDA w : ~IsComment(w))

\* the registered names
Names == {enumerators[n].periname : n \in 1..NPERI}

\* the tokens of a file of at least NHDR lines: the words after them
Tokens(f) == Words(f, AfterLine(f, NHDR), Len(f))

\* the sum of the pin counts of the first k instances written to stdout
RECURSIVE PinSum(_, _)
PinSum(ws, k) == IF k = 0 THEN 0 ELSE Len(ws[k].pins) + PinSum(ws, k - 1)

PinSet(w) == {w.pins[m] : m \in 1..Len(w.pins)}

\* the bytes the appends of header strings and library names pack
Packed(strs, is) ==
  Cat([k \in 1..Len(strs) |-> strs[k] \o <<NUL>>])
    \o Cat([k \in 1..Len(is) |-> enumerators[is[k].i + 1].libname \o <<NUL>>])

ZeroRom == [k \in 1..ENUMROMSZ |-> NUL]

\* ------------------------------------------------------------------------
\* Properties
\* ------------------------------------------------------------------------

\* C1: the pin ranges given to the instances are pairwise disjoint and, in
\* instance order, contiguous from pin 0: instance k is passed as its first
\* pin the sum of the pin counts of the instances before it, and assigns
\* exactly the pins from there on.
C1_PinRanges ==
  \A k \in 1..Len(insts) :
    /\ stdout[k].kind = "peri"
    /\ insts[k].pin = PinSum(stdout, k - 1)
    /\ \A m \in 1..Len(stdout[k].pins) : stdout[k].pins[m] = insts[k].pin + m - 1
    /\ \A q \in 1..(k - 1) : PinSet(stdout[q]) \cap PinSet(stdout[k]) = {}

\* two instances with pins, the second behind the pins of the first, and a
\* comment among the tokens read
C1_Witness ==
  /\ Len(insts) = 2
  /\ stdout[1].pins # <<>>
  /\ insts[2].pin = Len(stdout[1].pins)
  /\ stdout[2].pins # <<>>
  /\ \E k \in AfterLine(file, NHDR)..(fpos - 1) : file[k] = HASH

\* C2: a run that reads a file of n non-comment tokens to its end emits
\* exactly n instances, the k-th for the k-th such token with address k - 1,
\* and the pin cursor after it is the sum of the pin counts up to it.
C2_InstancesInOrder ==
  (pc = "exit" /\ status = 0 /\ ~readerr) =>
    LET toks == NonComment(Tokens(file))
    IN  /\ Len(insts) = Len(toks)
        /\ Len(stdout) = Len(toks) + 1
        /\ \A k \in 1..Len(toks) :
             /\ enumerators[insts[k].i + 1].periname = toks[k]
             /\ insts[k].addr = k - 1
             /\ stdout[k].kind = "peri"
             /\ stdout[k].addr = k - 1
             /\ (IF k < Len(toks) THEN insts[k + 1].pin ELSE pin) = PinSum(stdout, k)

C2_Witness ==
  /\ pc = "exit"
  /\ status = 0
  /\ ~readerr
  /\ Len(insts) = 2
  /\ pin = 12
  /\ Len(NonComment(Tokens(file))) < Len(Tokens(file))

\* C3: every byte an append stores into the ROM image lies at an index
\* 0..ENUMROMSZ-1.
C3_StoresInBounds == romtop < ENUMROMSZ

\* C4: while the run goes on, and after it has reached the end of the input,
\* the ROM image is the header strings appended, each with its NUL, then the
\* library name of each instance, each with its NUL, then zeros to the end;
\* so no append changes a byte below the write offset.
C4_RomImage ==
  (pc \in {"hdr", "loop", "fmt"} \/ status = 0) =>
    /\ romindx = Len(Packed(romstrs, insts))
    /\ romindx <= ENUMROMSZ
    /\ rom = Packed(romstrs, insts) \o SubSeq(ZeroRom, 1, ENUMROMSZ - romindx)

C4_Witness ==
  /\ pc = "exit"
  /\ status = 0
  /\ Len(romstrs) = NHDR
  /\ Len(insts) = 3
  /\ RomAt(rom, romindx - 1) = NUL
  /\ RomAt(rom, romindx - 2) # NUL


\* the bytes of a record's digits, in the order written
DecodeRecord(d) == [k \in 1..RECLEN |-> (16 * d[(2 * k) - 1]) + d[2 * k]]

\* C5: the ROM listing has NREC records labelled 0..NREC-1, each of exactly
\* 2 * RECLEN hexadecimal digits, and record n read as RECLEN bytes and
\* reversed is bytes [RECLEN * n, RECLEN * n + RECLEN) of the image.
C5_ListingRoundTrip ==
  (pc = "exit" /\ status = 0) =>
    /\ Len(enumlst) = NREC
    /\ \A n \in 1..NREC :
         /\ enumlst[n].label = <<(n - 1) \div 16, (n - 1) % 16>>
         /\ Len(enumlst[n].digits) = 2 * RECLEN
         /\ \A k \in 1..RECLEN :
              DecodeRecord(enumlst[n].digits)[k]
                = RomAt(rom, (RECLEN * (n - 1)) + RECLEN - k)

\* C6: when the name read is no comment and no registered name, the run has
\* ended with a non-zero status there: nothing was invoked, included or put
\* in the ROM for it, and neither endmodule nor a ROM record is written.
C6_UnknownAborts ==
  (peri # <<>> /\ ~IsComment(peri) /\ peri \notin Names) =>
    /\ pc = "exit"
    /\ status # 0
    /\ enumlst = <<>>
    /\ \A k \in 1..Len(stdout) : stdout[k].kind = "peri"
    /\ Len(stdout) = Len(insts)
    /\ Len(includes) = Len(insts)
    /\ romindx = Len(Packed(romstrs, insts))
    /\ LET read == NonComment(Words(file, AfterLine(file, NHDR), fpos - 1))
       IN  /\ Len(read) = Len(insts) + 1
           /\ read[Len(read)] = peri

\* an unknown name read after a peripheral has been processed
C6_Witness ==
  /\ msg = "Unknown peripheral"
  /\ peri \notin Names
  /\ Len(insts) >= 1
  /\ Len(includes) = Len(insts)

\* every line of f, a last one without newline too, is shorter than ROMSTRLN
LinesFit(f) ==
  \A a \in Newlines(f) \cup {0} :
    a < Len(f) => \E b \in Newlines(f) \cup {Len(f)} : b > a /\ b - a < ROMSTRLN

NothingEmitted ==
  /\ insts = <<>>
  /\ stdout = <<>>
  /\ includes = <<>>
  /\ enumlst = <<>>
  /\ slot = 0
  /\ pin = 0

\* C7 as claimed: a file whose author wrote fewer than NHDR header lines
\* before the peripheral lines ends with "Not enough ROM strings" and a
\* non-zero status before any peripheral is processed, and no peripheral line
\* is taken as a header string.
C7_FewHeaderLinesAbort ==
  nhdr < NHDR =>
    /\ pc \in {"hdr", "exit"}
    /\ pc = "exit" => (msg = "Not enough ROM strings" /\ status # 0)
    /\ Len(romstrs) <= nhdr
    /\ NothingEmitted

\* C7 as amended: a file with fewer than NHDR lines in all, header lines and
\* peripheral lines together, none of ROMSTRLN bytes or more, ends with "Not
\* enough ROM strings" and status 1 before any peripheral is processed.
C7_FewLinesAbort ==
  \/ pc = "hdr" /\ NothingEmitted
  \/ pc = "exit" /\ msg = "Not enough ROM strings" /\ status = 1 /\ NothingEmitted
  \/ ~(NumLines(file) < NHDR /\ LinesFit(file))

\* the run of a file of fewer than NHDR lines has ended so, after a
\* peripheral line was appended as a header string
C7_Witness ==
  /\ msg = "Not enough ROM strings"
  /\ NumLines(file) < NHDR
  /\ LinesFit(file)
  /\ nhdr < NumLines(file)
  /\ Len(romstrs) = NumLines(file)

\* C8: the run ends in the ROM overflow abort (status 1, no ROM record, no
\* endmodule) exactly when the bytes packed, the header strings and the
\* library names of the instances so far, each with its NUL, exceed
\* ENUMROMSZ.
C8_OverflowExactly ==
  /\ (msg = "Oops, Enumerator ROM overflow")
       <=> (Len(Packed(romstrs, insts)) > ENUMROMSZ)
  /\ (msg = "Oops, Enumerator ROM overflow") =>
       /\ pc = "exit"
       /\ status = 1
       /\ enumlst = <<>>
       /\ \A k \in 1..Len(stdout) : stdout[k].kind = "peri"

\* C9: the registered names are pairwise distinct, and the lookup of a name
\* ends at an entry exactly when the name is that entry's full name, byte for
\* byte, and at NPERI when it is no entry's name.
C9_LookupExact ==
  /\ \A a, b \in 1..NPERI :
       a # b => enumerators[a].periname # enumerators[b].periname
  /\ pc = "looked" =>
       /\ \A n \in 1..NPERI : (i = n - 1) <=> (peri = enumerators[n].periname)
       /\ peri \notin Names => i = NPERI

\* a proper prefix of a registered name, looked up and not found
C9_Witness ==
  /\ pc = "looked"
  /\ i = NPERI
  /\ \E n \in 1..NPERI :
       /\ Len(peri) < Len(enumerators[n].periname)
       /\ peri = SubSeq(enumerators[n].periname, 1, Len(peri))

\* C10: after a read of the description file has failed in the peripheral
\* loop, endmodule and the ROM listing are not written and the run does not
\* end with status 0.
C10_ReadFailureFatal ==
  readerr =>
    /\ \A k \in 1..Len(stdout) : stdout[k].kind # "endmodule"
    /\ enumlst = <<>>
    /\ pc = "exit" => status # 0

\* C11: a pass of the peripheral loop that reads a word whose first byte is
\* '#' leaves the slot, the pin, the ROM image and its offset, the wiring
\* written and the includes as they were, and the loop goes on reading.
C11_CommentFrame ==
  [][(/\ pc = "loop"
      /\ fscanf(file, fpos).ret >= 0
      /\ fscanf(file, fpos).str[1] = HASH
      /\ fpos' = fscanf(file, fpos).pos)
       => (/\ slot' = slot
           /\ pin' = pin
           /\ rom' = rom
           /\ romindx' = romindx
           /\ insts' = insts
           /\ stdout' = stdout
           /\ includes' = includes
           /\ pc' = "loop")]_vars

\* the entry whose name is the word w
EntryOf(w) == CHOOSE n \in 1..NPERI : enumerators[n].periname = w

\* C12: includes.tmp has one line for each peripheral invoked, in their
\* order, the k-th naming the include file of the entry found for the k-th;
\* at the end of a run they are the include files of the words of the file
\* that are no comments, an alias giving the include file of its module.
C12_IncludePerInstance ==
  /\ Len(includes) = Len(insts)
  /\ \A k \in 1..Len(insts) :
       includes[k] = enumerators[insts[k].i + 1].incname
  /\ (pc = "exit" /\ status = 0 /\ ~readerr) =>
       LET toks == NonComment(Tokens(file))
       IN  /\ Len(includes) = Len(toks)
           /\ \A k \in 1..Len(toks) :
                includes[k] = enumerators[EntryOf(toks[k])].incname

\* a run ended with the include file of espi written for the alias rtc,
\* after a comment
C12_Witness ==
  /\ pc = "exit"
  /\ status = 0
  /\ ~readerr
  /\ Len(includes) = 2
  /\ includes[2] = Bytes("espi")
  /\ enumerators[insts[2].i + 1].periname = Bytes("rtc")
  /\ Len(Tokens(file)) = 3

\* the offset of the newline that ends the n-th line of f, Len(f) + 1 for a
\* last line that has none
LineEnd(f, n) ==
  IF Cardinality(Newlines(f)) >= n THEN AfterLine(f, n) - 1 ELSE Len(f) + 1

\* the n-th line of f without its newline
LineText(f, n) ==
  SubSeq(f, IF n = 1 THEN 1 ELSE AfterLine(f, n - 1), LineEnd(f, n) - 1)

\* C13: for a file of at least NHDR lines, of any length and with or without
\* a newline after the NHDR-th, the strings the header loop has appended are
\* the first NHDR lines, each without its newline and otherwise whole, and
\* the peripheral loop reads from the line after them on.
C13_HeaderIsFirstLines ==
  (NumLines(file) >= NHDR /\ pc # "hdr") =>
    /\ romstrs = [k \in 1..NHDR |-> LineText(file, k)]
    /\ fpos > LineEnd(file, NHDR) \/ fpos > Len(file)

\* the offset of the first byte of the line of f that holds offset p
LineStartOf(f, p) == 1 + Max({k \in Newlines(f) : k < p} \cup {0})

\* C14: a word that follows a '#' and a space on its line is skipped as the
\* word of a line '#w' is: the name the loop has read last on a line that
\* begins with '#' is a comment, never a name that is looked up.
C14_MarkerThenSpace ==
  (pc # "hdr" /\ peri # <<>> /\ file[LineStartOf(file, fpos - 1)] = HASH) =>
    IsComment(peri)

\* the number of pins the callback of the n-th entry assigns, from address 0
\* and pin 0
PinCount(n) ==
  Len(Invoke(enumerators[n].invoke, 0, 0, enumerators[n].periname).pins)

\* C15: the callback of every entry, called with an address and a starting
\* pin, returns the starting pin plus a count c of that entry alone, c in
\* 0..8, and assigns each pin from the starting pin to c - 1 after it once and
\* no other pin; c is 0 for enumerator and for null.
C15_CallbackPins ==
  pc = "invoked" =>
    LET c == PinCount(i + 1)
        first == insts[1].pin
        pins == stdout[1].pins
    IN  /\ c \in 0..8
        /\ pin = first + c
        /\ Len(pins) = c
        /\ {pins[k] : k \in 1..Len(pins)} = first..(first + c - 1)
        /\ stdout[1].addr = insts[1].addr
        /\ enumerators[i + 1].periname \in {Bytes("enumerator"), Bytes("null")}
             => c = 0

\* qtr8 called with an address and a starting pin that are not 0
C15_Witness ==
  /\ pc = "invoked"
  /\ enumerators[i + 1].periname = Bytes("qtr8")
  /\ insts[1].addr = 2
  /\ insts[1].pin = 5
  /\ pin = 13
  /\ Len(stdout[1].pins) = 8

\* the places of endmodule in what is written to stdout
Marks == {k \in 1..Len(stdout) : stdout[k].kind = "endmodule"}

\* C16: endmodule is written at most once, only when the description file
\* has been read to its end without a failed read, after the wiring of every
\* peripheral and before any ROM record; a run that ends with status 0 has
\* written it and the NREC records, and a run that ends with another status
\* has written neither.
C16_ClosingMarker ==
  /\ Cardinality(Marks) <= 1
  /\ Marks # {} =>
       /\ Marks = {Len(stdout)}
       /\ Len(stdout) = Len(insts) + 1
       /\ fpos > Len(file)
       /\ ~readerr
       /\ pc \in {"fmt", "exit"}
       /\ status \in {-1, 0}
  /\ enumlst # <<>> => Marks # {}
  /\ (pc = "exit" /\ status = 0) => (Marks # {} /\ Len(enumlst) = NREC)
  /\ (pc = "exit" /\ status # 0) => (Marks = {} /\ enumlst = <<>>)

\* C17: when the description file has been read to its end and a peripheral
\* has been invoked, the one at address 0 is the enumerator, and no
\* peripheral at another address is.
C17_EnumeratorFirst ==
  (pc \in {"fmt", "exit"} /\ Marks # {} /\ insts # <<>>) =>
    /\ insts[1].addr = 0
    /\ enumerators[insts[1].i + 1].invoke = "perilist"
    /\ \A k \in 2..Len(insts) : enumerators[insts[k].i + 1].invoke # "perilist"

\* C18: every byte a read of a word has stored is in peri, and a word of
\* PERILEN bytes or more that is no comment ends the run with "Unknown
\* peripheral" and status 1, the slot, the pin and the ROM image being those
\* of the peripherals invoked before it.
C18_TokenFitsBuffer ==
  /\ peritop < PERILEN
  /\ (Len(peri) >= PERILEN /\ ~IsComment(peri)) =>
       /\ pc = "exit"
       /\ msg = "Unknown peripheral"
       /\ status = 1
       /\ slot = Len(insts)
       /\ pin = PinSum(stdout, Len(insts))
       /\ romindx = Len(Packed(romstrs, insts))

\* the names by which the peripherals invoked were selected, each with a NUL
NamesPacked(is) ==
  Cat([k \in 1..Len(is) |-> enumerators[is[k].i + 1].periname \o <<NUL>>])

\* C19: the strings in the ROM image after the header strings are, in order,
\* the names read from the description file for the peripherals invoked: the
\* string put in the ROM for a peripheral is the name by which it was
\* selected.
C19_DriverIdIsName ==
  (pc \in {"loop", "fmt"} \/ status = 0) =>
    SubSeq(rom, Len(Packed(romstrs, <<>>)) + 1,
                Len(Packed(romstrs, <<>>)) + Len(NamesPacked(insts)))
      = NamesPacked(insts)

====
